---------------------------- MODULE Spec2Model ----------------------------
(***************************************************************************)
(* Model of the heading-driven section extractor and its derived-field     *)
(* parsers (src/scraper.py, extract_sections and the extract_* helpers).   *)
(*                                                                         *)
(* A parsed document is the sequence of its element nodes in document      *)
(* order (what BeautifulSoup's find_all / find_all_next enumerate); every  *)
(* node carries its tag name and the string get_text(strip=True) returns   *)
(* for it.  Texts are TLA+ strings, handled character by character.        *)
(***************************************************************************)
EXTENDS Integers, Sequences, FiniteSets, TLC

VARIABLES doc, idx, results, found, candidate, raised, pc,
          csv, table, url_map, skipped, ui, scraped_date, fetchlog, ret,
          call, phase

\* the state of extract_sections
extractVars == <<doc, idx, results, found, candidate, raised, pc>>

\* the state of the command line's import and scrape_table, and of the
\* table they write
scrapeVars == <<csv, table, url_map, skipped, ui, scraped_date, fetchlog, ret,
                call, phase>>

vars == <<extractVars, scrapeVars>>

-----------------------------------------------------------------------------
(* Bounds of the model *)

MaxNodes == 3
MaxParts == 3
MaxCsvRows == 3
MaxCalls == 2

-----------------------------------------------------------------------------
(* Python str primitives *)

\* Python's None, as a value no text of the model equals
None == "<None>"

\* the characters str.strip() and the regex class \s remove
IsSpace(c) == c \in {" ", "\n", "\t", "\r"}

Char(s, i) == SubSeq(s, i, i)

\* s[i:i+len(k)] == k
StartsAt(s, k, i) == /\ i >= 1
                     /\ i + Len(k) - 1 <= Len(s)
                     /\ SubSeq(s, i, i + Len(k) - 1) = k

\* k in s
Contains(s, k) == \E i \in 1..(Len(s) - Len(k) + 1) : StartsAt(s, k, i)

UpperCase == "ABCDEFGHIJKLMNOPQRSTUVWXYZ"
LowerCase == "abcdefghijklmnopqrstuvwxyz"

\* the lower-case letter of every upper-case letter
ToLower == [c \in {Char(UpperCase, i) : i \in 1..Len(UpperCase)} |->
              Char(LowerCase, CHOOSE i \in 1..Len(UpperCase) : Char(UpperCase, i) = c)]

LowerChar(c) == IF c \in DOMAIN ToLower THEN ToLower[c] ELSE c

RECURSIVE lower(_)
\* str.lower()
lower(s) ==
    IF Len(s) = 0 THEN ""
    ELSE IF Len(s) = 1 THEN LowerChar(s)
    ELSE lower(SubSeq(s, 1, Len(s) \div 2)) \o lower(SubSeq(s, Len(s) \div 2 + 1, Len(s)))

\* first index >= i of s that holds no whitespace, Len(s)+1 when there is none
SkipSpace(s, i) ==
    LET stops == {j \in i..Len(s) : ~IsSpace(Char(s, j))}
    IN  IF stops = {} THEN Len(s) + 1
        ELSE CHOOSE j \in stops : \A k \in stops : j <= k

\* str.strip()
strip(s) ==
    LET keep == {j \in 1..Len(s) : ~IsSpace(Char(s, j))}
    IN  IF keep = {} THEN ""
        ELSE SubSeq(s, CHOOSE j \in keep : \A k \in keep : j <= k,
                       CHOOSE j \in keep : \A k \in keep : j >= k)

\* index of the first "\n" of s at or after i, Len(s)+1 when there is none
LineEnd(s, i) ==
    LET nl == {j \in i..Len(s) : Char(s, j) = "\n"}
    IN  IF nl = {} THEN Len(s) + 1
        ELSE CHOOSE j \in nl : \A k \in nl : j <= k

\* s.split("\n")[0]
FirstLine(s) == SubSeq(s, 1, LineEnd(s, 1) - 1)

\* s[:n]
Truncate(s, n) == IF Len(s) <= n THEN s ELSE SubSeq(s, 1, n)

RECURSIVE join(_)
\* "\n".join(content)
join(content) ==
    IF content = <<>> THEN ""
    ELSE IF Len(content) = 1 THEN content[1]
    ELSE content[1] \o "\n" \o join(Tail(content))

\* truthiness of a str-or-None value
Truthy(v) == v # None /\ v # ""

-----------------------------------------------------------------------------
(* The parsed document *)

\* soup.find_all(["h1", "h2", "h3", "h4", "h5"])
HeadingTags == {"h1", "h2", "h3", "h4", "h5"}

Node(name, text) == [name |-> name, text |-> text]

RECURSIVE headingsFrom(_, _)
headingsFrom(d, i) ==
    IF i > Len(d) THEN <<>>
    ELSE IF d[i].name \in HeadingTags THEN <<i>> \o headingsFrom(d, i + 1)
    ELSE headingsFrom(d, i + 1)

\* the positions of the heading nodes of d, in document order
headings(d) == headingsFrom(d, 1)

-----------------------------------------------------------------------------
(* Heading classifier *)

\* a variant of heading_map that tests non_accessible first
heading_map_reordered == <<
    [key |-> "non_accessible",    keywords |->
        <<"non-accessible", "not accessible", "does not fully meet",
          "non compliance", "non-compliance", "content not accessible",
          "not compliant", "partially compliant">>],
    [key |-> "feedback",          keywords |-> <<"feedback", "contact", "reporting">>],
    [key |-> "enforcement",       keywords |-> <<"enforcement">>],
    [key |-> "compliance_status", keywords |-> <<"compliance status">>],
    [key |-> "preparation",       keywords |-> <<"preparation">>] >>

heading_map == <<
    [key |-> "feedback",          keywords |-> <<"feedback", "contact", "reporting">>],
    [key |-> "enforcement",       keywords |-> <<"enforcement">>],
    [key |-> "compliance_status", keywords |-> <<"compliance status">>],
    [key |-> "preparation",       keywords |-> <<"preparation">>],
    [key |-> "non_accessible",    keywords |->
        <<"non-accessible", "not accessible", "does not fully meet",
          "non compliance", "non-compliance", "content not accessible",
          "not compliant", "partially compliant">>] >>

SectionKeys == {heading_map[i].key : i \in DOMAIN heading_map}

match_heading(text, target_list) ==
    \E i \in DOMAIN target_list : Contains(lower(text), target_list[i])

RECURSIVE firstMatch(_, _)
\* the loop over heading_map.items(): the first entry whose keywords match
\* (the loop breaks there), 0 when the loop runs to its end
firstMatch(text, i) ==
    IF i > Len(heading_map) THEN 0
    ELSE IF match_heading(text, heading_map[i].keywords) THEN i
    ELSE firstMatch(text, i + 1)

-----------------------------------------------------------------------------
(* Content collection *)

\* sibling.name and sibling.name.startswith("h")
stopsCollection(node) == node.name # "" /\ StartsAt(node.name, "h", 1)

\* get_text(strip=True) of the nodes heading.find_all_next() yields, from
\* position from to position to
texts(d, from, to) == [i \in 1..(to - from + 1) |-> d[from + i - 1].text]

\* a variant of collectAll that breaks at the next heading
collectAllToHeading(d, h) ==
    LET stops == {j \in (h + 1)..Len(d) : d[j].name \in HeadingTags}
        stop  == IF stops = {} THEN Len(d) + 1
                 ELSE CHOOSE j \in stops : \A k \in stops : j <= k
    IN  join(texts(d, h + 1, stop - 1))

\* the non_accessible branch: no break
collectAll(d, h) == join(texts(d, h + 1, Len(d)))

\* a variant of collectBounded that appends a node's text before it tests
\* whether to break
collectBoundedInclusive(d, h) ==
    LET stops == {j \in (h + 1)..Len(d) : stopsCollection(d[j])}
        stop  == IF stops = {} THEN Len(d)
                 ELSE CHOOSE j \in stops : \A k \in stops : j <= k
    IN  join(texts(d, h + 1, stop))

\* the branch of the other keys: break at the first node that stops collection
collectBounded(d, h) ==
    LET stops == {j \in (h + 1)..Len(d) : stopsCollection(d[j])}
        stop  == IF stops = {} THEN Len(d) + 1
                 ELSE CHOOSE j \in stops : \A k \in stops : j <= k
    IN  join(texts(d, h + 1, stop - 1))

collect(d, h, key) ==
    IF key = "non_accessible" THEN collectAll(d, h) ELSE collectBounded(d, h)

EmptyMap == [k \in {} |-> ""]

\* a variant of store that keeps a value already stored
storeIfAbsent(res, key, value) ==
    IF key \in DOMAIN res THEN res ELSE (key :> value) @@ res

\* results[key] = value
store(res, key, value) == (key :> value) @@ res

\* results.get(key, default)
get(res, key, default) == IF key \in DOMAIN res THEN res[key] ELSE default

-----------------------------------------------------------------------------
(* Date parser *)

\* the outcome of a call that raised
Raise == "<raise>"

\* dateutil's fuzzy parser, at its interface: the dates the model's texts
\* spell out, and the ISO form parsed.date().isoformat() gives them
DateLiterals == { [text |-> "14 March 2023", iso |-> "2023-03-14"],
                  [text |-> "1 May 2024",    iso |-> "2024-05-01"] }

Digits == {"0", "1", "2", "3", "4", "5", "6", "7", "8", "9"}

HasDigit(s) == \E i \in 1..Len(s) : Char(s, i) \in Digits

\* date_parser.parse(candidate, fuzzy=True).date().isoformat(): the set of
\* outcomes the library may produce.  A text with no digit holds no date and
\* is rejected; a text that spells out exactly one date yields it; for
\* anything else with digits the outcome is left open.
date_parser_parse(cand) ==
    LET spelled == {d \in DateLiterals : Contains(cand, d.text)}
    IN  IF ~HasDigit(cand) THEN {Raise}
        ELSE IF Cardinality(spelled) = 1
                /\ \A d \in spelled :
                     \A i \in 1..Len(cand) :
                        Char(cand, i) \in Digits =>
                          \E j \in 1..Len(cand) :
                             /\ StartsAt(cand, d.text, j)
                             /\ j <= i /\ i < j + Len(d.text)
             THEN {d.iso : d \in spelled}
        ELSE {d.iso : d \in DateLiterals} \cup {Raise}

\* the alternatives of the pattern's first group, in order, each with
\* whether "(?: on)?" follows it
Phrases == << [phrase |-> "last reviewed", on |-> TRUE],
              [phrase |-> "reviewed",      on |-> TRUE],
              [phrase |-> "last updated",  on |-> FALSE],
              [phrase |-> "updated",       on |-> TRUE] >>

RECURSIVE phraseEnd(_, _, _)
\* the index just after group 1 when the pattern matches text at i (the
\* alternatives tried in order, " on" taken greedily), 0 when none matches;
\* re.IGNORECASE: the comparison is on the lower-cased text
phraseEnd(low, i, a) ==
    IF a > Len(Phrases) THEN 0
    ELSE IF StartsAt(low, Phrases[a].phrase, i)
         THEN LET e == i + Len(Phrases[a].phrase)
              IN  IF Phrases[a].on /\ StartsAt(low, " on", e) THEN e + 3 ELSE e
    ELSE phraseEnd(low, i, a + 1)

\* re.search(pattern, text, re.IGNORECASE).group(2), None without a match:
\* the leftmost match; after group 1, \s*[:\-]?\s* and then (.*), which
\* stops at a newline
reSearchGroup2(text) ==
    LET low    == lower(text)
        starts == {i \in 1..Len(text) : phraseEnd(low, i, 1) # 0}
    IN  IF starts = {} THEN None
        ELSE LET i  == CHOOSE j \in starts : \A k \in starts : j <= k
                 e  == phraseEnd(low, i, 1)
                 s1 == SkipSpace(text, e)
                 s2 == IF s1 <= Len(text) /\ Char(text, s1) \in {":", "-"}
                       THEN s1 + 1 ELSE s1
                 s3 == SkipSpace(text, s2)
             IN  SubSeq(text, s3, LineEnd(text, s3) - 1)

\* a variant of dateCandidate without the [:200]
dateCandidateUntruncated(text) ==
    LET g == reSearchGroup2(text)
    IN  IF g = None THEN None ELSE FirstLine(strip(g))

\* match.group(2).strip().split("\n")[0][:200], None without a match
dateCandidate(text) ==
    LET g == reSearchGroup2(text)
    IN  IF g = None THEN None ELSE Truncate(FirstLine(strip(g)), 200)

\* a variant of extract_last_review_date without the try/except
extract_last_review_date_unguarded(text) ==
    LET cand == dateCandidate(text)
    IN  IF cand = None
        THEN {[candidate |-> None, value |-> None, raises |-> FALSE]}
        ELSE {[candidate |-> cand,
               value     |-> IF o = Raise THEN None ELSE o,
               raises    |-> o = Raise] : o \in date_parser_parse(cand)}

\* extract_last_review_date(text): the possible results, each with the
\* candidate handed to the fuzzy parser (None when it is not called) and
\* whether an exception leaves the function.  "except Exception: pass" turns
\* every raise of the parser into the final "return None".
extract_last_review_date(text) ==
    LET cand == dateCandidate(text)
    IN  IF cand = None
        THEN {[candidate |-> None, value |-> None, raises |-> FALSE]}
        ELSE {[candidate |-> cand,
               value     |-> IF o = Raise THEN None ELSE o,
               raises    |-> FALSE] : o \in date_parser_parse(cand)}

-----------------------------------------------------------------------------
(* Version and level parsers *)

RECURSIVE firstVersion(_, _)
firstVersion(text, vs) ==
    IF vs = <<>> THEN None
    ELSE IF Contains(text, Head(vs)) THEN Head(vs)
    ELSE firstVersion(text, Tail(vs))

\* a variant of extract_wcag_version that tests the oldest version first
extract_wcag_version_oldest_first(text) == firstVersion(text, <<"2.0", "2.1", "2.2">>)

extract_wcag_version(text) == firstVersion(text, <<"2.2", "2.1", "2.0">>)

\* a variant of extract_compliance_level that tests "partial" first
extract_compliance_level_partial_first(text) ==
    LET text_l == lower(IF Truthy(text) THEN text ELSE "")
    IN  IF Contains(text_l, "partially") \/ Contains(text_l, "partial")
        THEN "Partially Compliant"
        ELSE IF Contains(text_l, "fully") /\ Contains(text_l, "compliant")
        THEN "Fully Compliant"
        ELSE IF Contains(text_l, "not compliant") \/ Contains(text_l, "not compliant")
        THEN "Not Compliant"
        ELSE None

extract_compliance_level(text) ==
    LET text_l == lower(IF Truthy(text) THEN text ELSE "")
    IN  IF Contains(text_l, "fully") /\ Contains(text_l, "compliant")
        THEN "Fully Compliant"
        ELSE IF Contains(text_l, "partially") \/ Contains(text_l, "partial")
        THEN "Partially Compliant"
        ELSE IF Contains(text_l, "not compliant") \/ Contains(text_l, "not compliant")
        THEN "Not Compliant"
        ELSE None

-----------------------------------------------------------------------------
(* Derived fields *)

\* a variant of issueText without the "or None"
issueTextOrEmpty(res) == strip(get(res, "non_accessible", ""))

\* "yes" if results.get(key) else "no"
presentFlag(res, key) == IF Truthy(get(res, key, None)) THEN "yes" ELSE "no"

\* a variant of issueText without the strip()
issueTextUnstripped(res) ==
    LET s == get(res, "non_accessible", "")
    IN  IF Truthy(s) THEN s ELSE None

\* results.get("non_accessible", "").strip() or None
issueText(res) ==
    LET s == strip(get(res, "non_accessible", ""))
    IN  IF Truthy(s) THEN s ELSE None

DerivedKeys == {"feedback_present", "enforcement_present", "last_review",
                "wcag", "compliance_level", "issue_text"}

\* the two presence flags
deriveFlags(res) ==
    store(store(res, "feedback_present", presentFlag(res, "feedback")),
          "enforcement_present",
          presentFlag(store(res, "feedback_present", presentFlag(res, "feedback")),
                      "enforcement"))

\* the assignments after the flags, given the date parser's result
deriveFacts(res, last_review) ==
    LET r1        == store(res, "last_review", last_review)
        comp_stat == get(r1, "compliance_status", "")
        r2        == store(r1, "wcag", extract_wcag_version(comp_stat))
        r3        == store(r2, "compliance_level", extract_compliance_level(comp_stat))
    IN  store(r3, "issue_text", issueText(r3))

-----------------------------------------------------------------------------
(* The documents of the model *)

HeadingNodes == { Node("h2", "Feedback"),
                  Node("h3", "Contact us"),
                  Node("h2", "Reporting non-compliance"),
                  Node("h2", "Non-accessible content"),
                  Node("h1", "Compliance Status"),
                  Node("h4", "Preparation of this statement"),
                  Node("h5", "Enforcement procedure"),
                  Node("h2", "Introduction") }

OtherNodes == { Node("p", ""),
                Node("p", "mail us"),
                Node("hr", ""),
                Node("p", "Fully compliant with WCAG 2.1"),
                Node("p", "Last updated soon"),
                Node("p", "Reviewed on 14 March 2023") }

NodeKinds == HeadingNodes \cup OtherNodes

SeqsUpTo(S, n) == UNION {[1..k -> S] : k \in 0..n}

Docs == SeqsUpTo(NodeKinds, MaxNodes)

RECURSIVE Repeat(_, _)
Repeat(s, n) == IF n = 0 THEN "" ELSE s \o Repeat(s, n - 1)

\* 200 characters that hold no date
Filler == Repeat("all pages are tested", 10)

DateFragments == { "Last reviewed", "reviewed", " on", ":", " ", "\n",
                   "14 March 2023", "1 May 2024", "Last Updated", "soon ",
                   Filler }

LevelFragments == { "Fully", " compliant", "Partial", "ly", "not compliant",
                    " ", "\n", "WCAG 2.1", "2.2", "2.0" }

RECURSIVE concat(_)
concat(parts) == IF parts = <<>> THEN "" ELSE Head(parts) \o concat(Tail(parts))

\* a heading of one section followed by one paragraph, whose text is put
\* together from fragments (and is stripped, as get_text(strip=True) is)
ParserDocs ==
    { << Node("h4", "Preparation of this statement"),
         Node("p", strip(concat(parts))) >> :
        parts \in SeqsUpTo(DateFragments, MaxParts) }
    \cup
    { << Node("h1", "Compliance Status"),
         Node("p", strip(concat(parts))) >> :
        parts \in SeqsUpTo(LevelFragments, MaxParts) }

-----------------------------------------------------------------------------
(* The table and its upsert *)

\* the columns of ensure_table / init_db after id and product_name
DataColumns == {"portfolio", "url", "fetched_at", "feedback", "enforcement",
                "compliance_status", "preparation", "non_accessible",
                "feedback_present", "enforcement_present", "last_review",
                "wcag", "compliance_level", "issue_text", "status"}

\* the value a column takes when an INSERT does not name it: status has
\* DEFAULT '', every other column is NULL
columnDefault(c) == IF c = "status" THEN "" ELSE None

\* the rows of t whose product_name is p
rowsOf(t, p) == {i \in DOMAIN t : t[i].product_name = p}

\* the id an INSERT gives a new row: INTEGER PRIMARY KEY, one more than
\* the largest id of the table
nextId(t) ==
    IF t = <<>> THEN 1
    ELSE 1 + (CHOOSE m \in {t[i].id : i \in DOMAIN t} :
                 \A i \in DOMAIN t : t[i].id <= m)

\* the row INSERT INTO ... (product_name, fields) VALUES (...) adds
insertedRow(t, product_name, data) ==
    [id |-> nextId(t), product_name |-> product_name,
     cols |-> [c \in DataColumns |->
                 IF c \in DOMAIN data THEN data[c] ELSE columnDefault(c)]]

\* DO UPDATE SET f = excluded.f for the fields of data, on row r
updatedRow(r, data) ==
    [r EXCEPT !.cols = [c \in DataColumns |->
                          IF c \in DOMAIN data THEN data[c] ELSE r.cols[c]]]

\* conn.execute of INSERT ... ON CONFLICT(product_name) DO UPDATE SET
\* <updates>: the table afterwards, and whether SQLite rejected the
\* statement.  With no field in data the SET list is empty and the statement
\* does not parse.  product_name is UNIQUE: a row of that name is updated
\* in place, else a row is added.
executeUpsert(t, product_name, data) ==
    IF DOMAIN data = {} THEN [table |-> t, rejected |-> TRUE]
    ELSE IF rowsOf(t, product_name) = {}
    THEN [table |-> Append(t, insertedRow(t, product_name, data)), rejected |-> FALSE]
    ELSE [table |-> [i \in DOMAIN t |->
                       IF t[i].product_name = product_name
                       THEN updatedRow(t[i], data) ELSE t[i]],
          rejected |-> FALSE]

\* upsert_row (cli.py) and upsert_page (db.py): the table afterwards and
\* what became of an error: upsert_row lets it propagate, upsert_page
\* catches sqlite3.Error and prints it
upsert(fn, t, product_name, data) ==
    IF product_name = "" \/ product_name = None
    THEN [table |-> t, error |-> "skipped"]
    ELSE LET after == executeUpsert(t, product_name, data)
         IN  IF after.rejected
             THEN [table |-> t,
                   error |-> IF fn = "upsert_page" THEN "printed" ELSE "raised"]
             ELSE [table |-> after.table, error |-> "none"]

upsert_row(t, product_name, data) == upsert("upsert_row", t, product_name, data).table

\* no upsert call has been made
NoCall == [n |-> 0, fn |-> None, product_name |-> None, data |-> EmptyMap,
           before |-> <<>>, error |-> "none"]

-----------------------------------------------------------------------------
(* extract_sections *)

\* no import, scrape or upsert is under way
ScrapeIdle ==
    /\ csv = <<>>
    /\ table = <<>>
    /\ url_map = <<>>
    /\ skipped = 0
    /\ ui = 1
    /\ scraped_date = None
    /\ fetchlog = <<>>
    /\ ret = None
    /\ call = NoCall
    /\ phase = "idle"

InitWith(d) ==
    /\ doc = d
    /\ idx = 1
    /\ results = EmptyMap
    /\ found = <<>>
    /\ candidate = None
    /\ raised = FALSE
    /\ pc = "scan"
    /\ ScrapeIdle

Init == \E d \in Docs : InitWith(d)

InitParser == \E d \in ParserDocs : InitWith(d)

\* one iteration of "for idx, heading in enumerate(headings)"
ScanHeading ==
    /\ pc = "scan"
    /\ idx <= Len(headings(doc))
    /\ LET h    == headings(doc)[idx]
           text == lower(doc[h].text)
           m    == firstMatch(text, 1)
       IN  IF m = 0
           THEN UNCHANGED <<results, found>>
           ELSE /\ results' = store(results, heading_map[m].key,
                                    collect(doc, h, heading_map[m].key))
                /\ found' = Append(found, [key |-> heading_map[m].key, at |-> h])
    /\ idx' = idx + 1
    /\ UNCHANGED <<doc, candidate, raised, pc>>
    /\ UNCHANGED scrapeVars

\* the statements after the loop, to the return
Derive ==
    /\ pc = "scan"
    /\ idx > Len(headings(doc))
    /\ LET flagged == deriveFlags(results)
       IN  \E o \in extract_last_review_date(get(flagged, "preparation", "")) :
              /\ candidate' = o.candidate
              /\ raised' = o.raises
              /\ results' = IF o.raises THEN flagged
                            ELSE deriveFacts(flagged, o.value)
    /\ pc' = "done"
    /\ UNCHANGED <<doc, idx, found>>
    /\ UNCHANGED scrapeVars

Next == ScanHeading \/ Derive

Spec == Init /\ [][Next]_vars

ParserSpec == InitParser /\ [][Next]_vars

-----------------------------------------------------------------------------
(* run_all: the import of a CSV file *)

\* the values of Statement URL that stand for "no URL"
NoUrlWords == {"", "null", "none", "na", "n/a", "working"}

\* the rows csv.DictReader yields, as Product Name, Portfolio, Statement URL
CsvRow(product, portfolio, url) ==
    [product |-> product, portfolio |-> portfolio, url |-> url]

CsvRowKinds ==
    {CsvRow(p, "Core", u) : p \in {"", "Alpha", "Beta "},
                            u \in {"N/A", "https://a.example", " https://b.example"}}

CsvFiles == SeqsUpTo(CsvRowKinds, MaxCsvRows)

\* the url of a row after "(v or '').strip()" and the test against the
\* words that stand for no URL
importedUrl(row) ==
    IF lower(strip(row.url)) \in NoUrlWords THEN "" ELSE strip(row.url)

\* the field set run_all upserts for a row
importedFields(row) ==
    LET url == importedUrl(row)
    IN  [c \in {"portfolio", "url", "status"} |->
           CASE c = "portfolio" -> strip(row.portfolio)
             [] c = "url"       -> IF Truthy(url) THEN url ELSE None
             [] c = "status"    -> IF Truthy(url) THEN "pending" ELSE "no_url"]

-----------------------------------------------------------------------------
(* scrape_table *)

\* a url_map that takes an entry for every row
addToUrlMapUngrouped(m, url, product_name) ==
    Append(m, [url |-> url, products |-> <<product_name>>])

RECURSIVE addToUrlMap(_, _, _)
\* url_map.setdefault(url, []).append(product_name), on the list of
\* url_map.items()
addToUrlMap(m, url, product_name) ==
    IF m = <<>> THEN << [url |-> url, products |-> <<product_name>>] >>
    ELSE IF m[1].url = url
    THEN << [m[1] EXCEPT !.products = Append(@, product_name)] >> \o Tail(m)
    ELSE << m[1] >> \o addToUrlMap(Tail(m), url, product_name)

RECURSIVE buildUrlMap(_, _)
\* the first loop of scrape_table over the rows of the table
buildUrlMap(t, m) ==
    IF t = <<>> THEN m
    ELSE buildUrlMap(Tail(t),
                     IF Truthy(t[1].cols["url"])
                     THEN addToUrlMap(m, t[1].cols["url"], t[1].product_name)
                     ELSE m)

\* the rows the first loop counts as skipped
countSkipped(t) == Cardinality({i \in DOMAIN t : ~Truthy(t[i].cols["url"])})

\* an upsert of the first product of a URL only
upsertFirst(t, products, data) ==
    IF products = <<>> THEN t ELSE upsert_row(t, Head(products), data)

RECURSIVE upsertAll(_, _, _)
\* for product in products: upsert_row(conn, table_name, product, status)
upsertAll(t, products, data) ==
    IF products = <<>> THEN t
    ELSE upsertAll(upsert_row(t, Head(products), data), Tail(products), data)

\* any(data.values())
anyValue(data) == \E k \in DOMAIN data : Truthy(data[k])

\* the dict scrape_table upserts for a page that was rendered
statusOf(data, date) ==
    IF ~anyValue(data)
    THEN ("status" :> "no_content") @@ ("fetched_at" :> date)
    ELSE ("status" :> "success") @@ ("fetched_at" :> date) @@ data

\* the dict scrape_table upserts when fetch_html returns None
statusFailed(date) == ("status" :> "failed") @@ ("fetched_at" :> date)

\* datetime.now(...).strftime("%d/%m/%Y") on the days a run may span
Dates == << "01/11/2026", "02/11/2026" >>

\* the dates the clock may show once it has shown cur
datesFrom(cur) ==
    {Dates[i] : i \in {j \in DOMAIN Dates :
                          \A k \in DOMAIN Dates : Dates[k] = cur => k <= j}}

\* the pages fetch_html may return for a URL
Pages == { << Node("p", "mail us") >>,
           << Node("h2", "Feedback"), Node("p", "mail us") >> }

InitScrape ==
    /\ csv \in CsvFiles
    /\ table = <<>>
    /\ url_map = <<>>
    /\ skipped = 0
    /\ ui = 1
    /\ scraped_date = None
    /\ fetchlog = <<>>
    /\ ret = None
    /\ call = NoCall
    /\ phase = "import"
    /\ doc = <<>>
    /\ idx = 1
    /\ results = EmptyMap
    /\ found = <<>>
    /\ candidate = None
    /\ raised = FALSE
    /\ pc = "idle"

\* one row of the CSV file: run_all's loop over the reader
ImportRow ==
    /\ phase = "import"
    /\ csv # <<>>
    /\ LET row == Head(csv)
       IN  table' = IF strip(row.product) = "" THEN table
                    ELSE upsert_row(table, strip(row.product), importedFields(row))
    /\ csv' = Tail(csv)
    /\ UNCHANGED <<url_map, skipped, ui, scraped_date, fetchlog, ret, call, phase>>
    /\ UNCHANGED extractVars

\* scrape_table up to its second loop: the rows are read and grouped by URL
StartScrape ==
    /\ phase = "import"
    /\ csv = <<>>
    /\ url_map' = buildUrlMap(table, <<>>)
    /\ skipped' = countSkipped(table)
    /\ ui' = 1
    /\ phase' = "scrape"
    /\ UNCHANGED <<csv, table, scraped_date, fetchlog, ret, call>>
    /\ UNCHANGED extractVars

\* an iteration of the second loop in which fetch_html returns None
FetchFailed ==
    /\ phase = "scrape"
    /\ pc = "idle"
    /\ ui <= Len(url_map)
    /\ \E d \in datesFrom(scraped_date) :
          /\ scraped_date' = d
          /\ table' = upsertAll(table, url_map[ui].products, statusFailed(d))
    /\ fetchlog' = Append(fetchlog, [url |-> url_map[ui].url, html |-> FALSE])
    /\ ui' = ui + 1
    /\ UNCHANGED <<csv, url_map, skipped, ret, call, phase>>
    /\ UNCHANGED extractVars

\* an iteration of the second loop in which fetch_html returns a page:
\* extract_sections starts on it
FetchRendered ==
    /\ phase = "scrape"
    /\ pc = "idle"
    /\ ui <= Len(url_map)
    /\ \E d \in datesFrom(scraped_date) : scraped_date' = d
    /\ fetchlog' = Append(fetchlog, [url |-> url_map[ui].url, html |-> TRUE])
    /\ \E page \in Pages : doc' = page
    /\ idx' = 1
    /\ results' = EmptyMap
    /\ found' = <<>>
    /\ candidate' = None
    /\ raised' = FALSE
    /\ pc' = "scan"
    /\ UNCHANGED <<csv, table, url_map, skipped, ui, ret, call, phase>>

\* the rest of that iteration, once extract_sections has returned
StoreResult ==
    /\ phase = "scrape"
    /\ pc = "done"
    /\ table' = upsertAll(table, url_map[ui].products,
                          statusOf(results, scraped_date))
    /\ ui' = ui + 1
    /\ pc' = "idle"
    /\ UNCHANGED <<csv, url_map, skipped, scraped_date, fetchlog, ret, call, phase>>
    /\ UNCHANGED <<doc, idx, results, found, candidate, raised>>

\* return len(url_map), skipped
Return ==
    /\ phase = "scrape"
    /\ pc = "idle"
    /\ ui > Len(url_map)
    /\ ret' = [scraped |-> Len(url_map), skipped |-> skipped]
    /\ phase' = "returned"
    /\ UNCHANGED <<csv, table, url_map, skipped, ui, scraped_date, fetchlog, call>>
    /\ UNCHANGED extractVars

ScrapeNext ==
    \/ ImportRow
    \/ StartScrape
    \/ FetchFailed
    \/ FetchRendered
    \/ ScanHeading
    \/ Derive
    \/ StoreResult
    \/ Return

ScrapeSpec == InitScrape /\ [][ScrapeNext]_vars

-----------------------------------------------------------------------------
(* Calls of upsert_row and upsert_page *)

ApiProducts == {"", "Alpha", "Beta"}

\* the field sets of the calls: none, one or two columns
ApiFieldSets ==
    { EmptyMap,
      ("url" :> "https://a.example"),
      ("status" :> "pending"),
      ("status" :> "failed"),
      ("status" :> "failed") @@ ("url" :> "https://b.example") }

InitUpsert ==
    /\ table = <<>>
    /\ call = NoCall
    /\ phase = "api"
    /\ csv = <<>>
    /\ url_map = <<>>
    /\ skipped = 0
    /\ ui = 1
    /\ scraped_date = None
    /\ fetchlog = <<>>
    /\ ret = None
    /\ doc = <<>>
    /\ idx = 1
    /\ results = EmptyMap
    /\ found = <<>>
    /\ candidate = None
    /\ raised = FALSE
    /\ pc = "idle"

\* one call of upsert_row or upsert_page
UpsertCall ==
    /\ phase = "api"
    /\ call.n < MaxCalls
    /\ \E fn \in {"upsert_row", "upsert_page"}, p \in ApiProducts, data \in ApiFieldSets :
          LET out == upsert(fn, table, p, data)
          IN  /\ table' = out.table
              /\ call' = [n |-> call.n + 1, fn |-> fn, product_name |-> p,
                          data |-> data, before |-> table, error |-> out.error]
    /\ UNCHANGED <<csv, url_map, skipped, ui, scraped_date, fetchlog, ret, phase>>
    /\ UNCHANGED extractVars

UpsertNext == UpsertCall

UpsertSpec == InitUpsert /\ [][UpsertNext]_vars

-----------------------------------------------------------------------------
(* Properties *)

Done == pc = "done"

\* the positions of the headings the scan has stored under key k, in order
StoredAt(k) == {found[n].at : n \in {m \in DOMAIN found : found[m].key = k}}

Min(S) == CHOOSE x \in S : \A y \in S : x <= y
Max(S) == CHOOSE x \in S : \A y \in S : x >= y

BoundedKeys == {"feedback", "enforcement", "compliance_status", "preparation"}

NextHeading(d, h) ==
    LET hs == {j \in (h + 1)..Len(d) : d[j].name \in HeadingTags}
    IN  IF hs = {} THEN Len(d) + 1 ELSE Min(hs)

\* C2: the text returned for a bounded key is the newline-join of the texts
\* of exactly the nodes between a heading of that key and the first heading
\* node (h1-h5) after it
C2_StopsOnlyAtHeading ==
    Done => \A k \in BoundedKeys \cap DOMAIN results :
              \E h \in StoredAt(k) :
                 results[k] = join(texts(doc, h + 1, NextHeading(doc, h) - 1))

\* C3: while a non_accessible heading is the last one stored under its key,
\* the value of non_accessible is the newline-join of the texts of all the
\* nodes after it, to the end of the document
C3_NonAccessibleToEnd ==
    StoredAt("non_accessible") # {} =>
        results["non_accessible"] =
            join(texts(doc, Max(StoredAt("non_accessible")) + 1, Len(doc)))

\* a non_accessible heading, then another heading, then a node with text,
\* and that text is part of the returned value
C3_Witness ==
    /\ Done
    /\ StoredAt("non_accessible") # {}
    /\ LET h == Max(StoredAt("non_accessible"))
       IN  \E j \in (h + 1)..Len(doc) :
              /\ doc[j].name \in HeadingTags
              /\ \E i \in (j + 1)..Len(doc) :
                    /\ doc[i].text # ""
                    /\ Contains(results["non_accessible"], doc[i].text)

\* the keyword table of the heading classifier, in its fixed order
KeyOrder == <<"feedback", "enforcement", "compliance_status", "preparation",
              "non_accessible">>

KeywordsOf(k) ==
    CASE k = "feedback"          -> {"feedback", "contact", "reporting"}
      [] k = "enforcement"       -> {"enforcement"}
      [] k = "compliance_status" -> {"compliance status"}
      [] k = "preparation"       -> {"preparation"}
      [] k = "non_accessible"    ->
            {"non-accessible", "not accessible", "does not fully meet",
             "non compliance", "non-compliance", "content not accessible",
             "not compliant", "partially compliant"}

\* the positions in KeyOrder of the keys that have a keyword in the text
MatchingKeys(text) ==
    LET low == lower(text)
    IN  {i \in DOMAIN KeyOrder : \E kw \in KeywordsOf(KeyOrder[i]) : Contains(low, kw)}

\* the first key of the fixed order that has a keyword in the text
FirstKey(text) ==
    LET ms == MatchingKeys(text)
    IN  IF ms = {} THEN None ELSE KeyOrder[Min(ms)]

\* the headings the scan has passed
Scanned == {headings(doc)[i] : i \in 1..(idx - 1)}

\* C4: every heading is stored under the first key of the fixed order that
\* has a keyword in its lower-cased text, a heading with no keyword is
\* stored under no key, a heading with a feedback keyword is collected as a
\* bounded section whatever else it matches, and no section key outside the
\* five appears
C4_OrderedClosedClassification ==
    LET keyOf == [h \in Scanned |-> FirstKey(doc[h].text)]
    IN  /\ DOMAIN results \subseteq {KeyOrder[i] : i \in DOMAIN KeyOrder} \cup DerivedKeys
        /\ \A n \in DOMAIN found : found[n].key = keyOf[found[n].at]
        /\ {found[n].at : n \in DOMAIN found} = {h \in Scanned : keyOf[h] # None}
        /\ DOMAIN results \ DerivedKeys = {keyOf[h] : h \in Scanned} \ {None}
        /\ \A h \in Scanned :
              (keyOf[h] = "feedback" /\ h = Max(StoredAt("feedback")))
                 => \E e \in h..(NextHeading(doc, h) - 1) :
                       results["feedback"] = join(texts(doc, h + 1, e))

\* a heading with a feedback keyword and a non_accessible keyword, stored as
\* feedback, with text after the next heading that is left out
C4_Witness ==
    /\ Done
    /\ \E n \in DOMAIN found :
          /\ MatchingKeys(doc[found[n].at].text) = {1, 5}
          /\ found[n].key = "feedback"
          /\ "non_accessible" \notin DOMAIN results
          /\ NextHeading(doc, found[n].at) < Len(doc)
          /\ doc[Len(doc)].text # ""
    /\ \E h \in Scanned : MatchingKeys(doc[h].text) = {}

\* "yes" when the section text is non-empty after stripping, else "no"
PresentAfterStrip(k) == IF strip(get(results, k, "")) # "" THEN "yes" ELSE "no"

\* C5: feedback_present is "yes" exactly when the feedback text is non-empty
\* after stripping whitespace, and enforcement_present likewise
C5_PresentIffNonEmptyStripped ==
    Done => /\ results["feedback_present"] = PresentAfterStrip("feedback")
            /\ results["enforcement_present"] = PresentAfterStrip("enforcement")

\* C6: extract_sections returns normally with all six derived keys, and the
\* derived fields other than last_review have the values their own sections
\* determine, whether or not the date parser found or parsed a date
C6_NeverRaises ==
    Done => /\ ~raised
            /\ DerivedKeys \subseteq DOMAIN results
            /\ results["wcag"] =
                  extract_wcag_version(get(results, "compliance_status", ""))
            /\ results["compliance_level"] =
                  extract_compliance_level(get(results, "compliance_status", ""))
            /\ results["issue_text"] = issueText(results)
            /\ results["feedback_present"] = presentFlag(results, "feedback")
            /\ results["enforcement_present"] = presentFlag(results, "enforcement")

\* the fuzzy parser was called and rejected its candidate, last_review is
\* absent and another derived field has a value
C6_Witness ==
    /\ Done
    /\ candidate # None
    /\ results["last_review"] = None
    /\ results["issue_text"] # None

\* C7: a document without heading nodes gives a record with no section key,
\* both flags "no" and the four derived facts absent
C7_NoHeadings ==
    (Done /\ headings(doc) = <<>>) =>
        /\ DOMAIN results \cap SectionKeys = {}
        /\ results["feedback_present"] = "no"
        /\ results["enforcement_present"] = "no"
        /\ results["issue_text"] = None
        /\ results["last_review"] = None
        /\ results["wcag"] = None
        /\ results["compliance_level"] = None

\* a document of nodes with text and no heading
C7_Witness ==
    /\ Done
    /\ headings(doc) = <<>>
    /\ \E i \in DOMAIN doc : Contains(doc[i].text, "2.1")
    /\ \E i \in DOMAIN doc : Contains(doc[i].text, "Reviewed on")

\* a matched heading directly followed by a heading node or by the end of
\* the document
NoContentAfter(h) == h = Len(doc) \/ doc[h + 1].name \in HeadingTags

DatePhrases == {"last reviewed", "reviewed", "last updated", "updated"}

\* the leftmost position of text where a phrase starts, 0 when there is none
PhraseStart(text) ==
    LET low == lower(text)
        ps  == {i \in 1..Len(text) : \E p \in DatePhrases : StartsAt(low, p, i)}
    IN  IF ps = {} THEN 0 ELSE Min(ps)

\* the position just after the phrase (and its " on") that starts at i
PhraseStop(text, i) ==
    LET low == lower(text)
        p   == CHOOSE q \in DatePhrases : StartsAt(low, q, i)
        e   == i + Len(p)
    IN  IF p # "last updated" /\ StartsAt(low, " on", e) THEN e + 3 ELSE e

\* s without its leading whitespace
LStrip(s) == SubSeq(s, SkipSpace(s, 1), Len(s))

\* s without a leading colon or dash
DropSeparator(s) ==
    IF s # "" /\ Char(s, 1) \in {":", "-"} THEN SubSeq(s, 2, Len(s)) ELSE s

\* the candidate of C9 as stated: what follows the phrase up to the first
\* newline after the phrase, less the separator, cut to 200 characters
StatedCandidate(text) ==
    LET i == PhraseStart(text)
    IN  IF i = 0 THEN None
        ELSE LET e    == PhraseStop(text, i)
                 line == SubSeq(text, e, LineEnd(text, e) - 1)
             IN  Truncate(strip(DropSeparator(LStrip(line))), 200)

\* the candidate of C9 as amended: after the phrase, whitespace (newlines
\* included), an optional colon or dash and further whitespace are skipped,
\* and what follows up to the next newline is taken, less its trailing
\* whitespace, cut to 200 characters
AmendedCandidate(text) ==
    LET i == PhraseStart(text)
    IN  IF i = 0 THEN None
        ELSE LET e    == PhraseStop(text, i)
                 rest == SubSeq(text, e, Len(text))
             IN  Truncate(strip(FirstLine(LStrip(DropSeparator(LStrip(rest))))), 200)

\* last_review is absent when there is no candidate or the fuzzy parser
\* rejects it, and otherwise a date the fuzzy parser gives for the candidate
LastReviewFrom(cand) ==
    IF cand = None THEN results["last_review"] = None
    ELSE \E o \in date_parser_parse(cand) :
            results["last_review"] = IF o = Raise THEN None ELSE o

\* C9 as stated: the fuzzy parser is given the text between the leftmost
\* phrase (and separator) and the first newline after the phrase, cut to 200
\* characters, and last_review of the record is the outcome for the
\* preparation text
C9_CandidateToFirstNewline ==
    Done => /\ candidate = StatedCandidate(get(results, "preparation", ""))
            /\ LastReviewFrom(candidate)

\* C9 amended: the fuzzy parser is given the rest of the line on which the
\* first character after the phrase, the whitespace (newlines included) and
\* the optional separator stands, stripped and cut to 200 characters;
\* last_review is absent without a phrase or when the parser rejects the
\* candidate, and otherwise the parsed date, for the preparation text
C9_CandidateAfterSkippedWhitespace ==
    Done => /\ candidate = AmendedCandidate(get(results, "preparation", ""))
            /\ LastReviewFrom(candidate)

\* a phrase at the end of its line, and the date of the next line returned
C9_Witness ==
    /\ Done
    /\ "preparation" \in DOMAIN results
    /\ candidate # None
    /\ StatedCandidate(results["preparation"]) = ""
    /\ candidate = "14 March 2023"
    /\ results["last_review"] = "2023-03-14"

\* the level of C10 for a lower-cased text
StatedLevel(text_l) ==
    CASE Contains(text_l, "fully") /\ Contains(text_l, "compliant") -> "Fully Compliant"
      [] ~(Contains(text_l, "fully") /\ Contains(text_l, "compliant"))
         /\ Contains(text_l, "partial") -> "Partially Compliant"
      [] ~(Contains(text_l, "fully") /\ Contains(text_l, "compliant"))
         /\ ~Contains(text_l, "partial")
         /\ Contains(text_l, "not compliant") -> "Not Compliant"
      [] OTHER -> None

\* C10: compliance_level is "Fully Compliant" when the lower-cased
\* compliance_status text holds "fully" and "compliant", else "Partially
\* Compliant" when it holds "partial", else "Not Compliant" when it holds
\* "not compliant", else absent
C10_LevelPrecedence ==
    Done => results["compliance_level"] =
               StatedLevel(lower(get(results, "compliance_status", "")))

\* a text with "fully", "compliant" and "partial", returned as Fully Compliant
C10_Witness ==
    /\ Done
    /\ "compliance_status" \in DOMAIN results
    /\ Contains(lower(results["compliance_status"]), "fully")
    /\ Contains(lower(results["compliance_status"]), "compliant")
    /\ Contains(lower(results["compliance_status"]), "partial")
    /\ results["compliance_level"] = "Fully Compliant"

\* the version of C11 for a text
StatedVersion(text) ==
    CASE Contains(text, "2.2") -> "2.2"
      [] ~Contains(text, "2.2") /\ Contains(text, "2.1") -> "2.1"
      [] ~Contains(text, "2.2") /\ ~Contains(text, "2.1") /\ Contains(text, "2.0") -> "2.0"
      [] OTHER -> None

\* the leftmost position of k in s, 0 when s does not hold k
Find(s, k) ==
    LET ps == {i \in 1..Len(s) : StartsAt(s, k, i)}
    IN  IF ps = {} THEN 0 ELSE Min(ps)

\* C11: wcag is "2.2" when the compliance_status text holds "2.2", else "2.1"
\* when it holds "2.1", else "2.0" when it holds "2.0", else absent, wherever
\* the versions stand in the text
C11_VersionPriority ==
    Done => /\ results["wcag"] = StatedVersion(get(results, "compliance_status", ""))
            /\ results["wcag"] \in {"2.2", "2.1", "2.0", None}

\* a text that names an older version before "2.2", returned as 2.2
C11_Witness ==
    /\ Done
    /\ "compliance_status" \in DOMAIN results
    /\ Find(results["compliance_status"], "2.2") > 0
    /\ Find(results["compliance_status"], "2.1") > 0
    /\ Find(results["compliance_status"], "2.1") < Find(results["compliance_status"], "2.2")
    /\ results["wcag"] = "2.2"

\* C12: issue_text is the non_accessible text without its leading and
\* trailing whitespace, and absent exactly when the section is missing or
\* nothing is left of its text after stripping
C12_IssueTextStripped ==
    Done => /\ results["issue_text"] = None
               <=> ("non_accessible" \notin DOMAIN results
                    \/ strip(results["non_accessible"]) = "")
            /\ results["issue_text"] # None
               => results["issue_text"] = strip(results["non_accessible"])

\* a non_accessible text that starts with a newline, returned without it
C12_Witness ==
    /\ Done
    /\ "non_accessible" \in DOMAIN results
    /\ StartsAt(results["non_accessible"], "\n", 1)
    /\ results["issue_text"] # None
    /\ results["issue_text"] # results["non_accessible"]

\* the URLs the rows of the table carry
UrlsOf(t) == {t[i].cols["url"] : i \in {j \in DOMAIN t : Truthy(t[j].cols["url"])}}

\* how often scrape_table has fetched url
Fetches(url) == Cardinality({i \in DOMAIN fetchlog : fetchlog[i].url = url})

\* the columns a scrape writes
ScrapedColumns == DataColumns \ {"portfolio", "url"}

\* C13: in one run of scrape_table no URL is fetched twice, at its return
\* every URL of the table has been fetched exactly once, and the rows that
\* carry the same URL hold the same scraped record: section fields, status
\* and fetched_at
C13_OneFetchPerUrl ==
    phase \in {"scrape", "returned"} =>
        /\ \A u \in UrlsOf(table) : Fetches(u) <= 1
        /\ phase = "returned" => \A u \in UrlsOf(table) : Fetches(u) = 1
        /\ Len(fetchlog) <= Cardinality(UrlsOf(table))
        /\ \A i, j \in DOMAIN table :
              /\ Truthy(table[i].cols["url"])
              /\ table[i].cols["url"] = table[j].cols["url"]
              => \A c \in ScrapedColumns : table[i].cols[c] = table[j].cols[c]

\* two products share a URL: its page was fetched once and both rows hold
\* what was extracted from it
C13_Witness ==
    /\ phase = "returned"
    /\ \E i, j \in DOMAIN table :
          /\ i # j
          /\ table[i].cols["url"] = table[j].cols["url"]
          /\ Len(fetchlog) = 1
          /\ fetchlog[1].url = table[i].cols["url"]
          /\ table[i].cols["status"] = "success"
          /\ table[i].cols["feedback"] = "mail us"
          /\ table[j].cols["feedback"] = "mail us"
          /\ table[i].cols["fetched_at"] = Dates[2]

\* what the last call was to do on the table it found
InsertedOrOverwritten ==
    LET p == call.product_name
    IN  IF rowsOf(call.before, p) = {}
        THEN /\ Len(table) = Len(call.before) + 1
             /\ \A i \in DOMAIN call.before : table[i] = call.before[i]
             /\ table[Len(table)].product_name = p
             /\ \A c \in DOMAIN call.data :
                   table[Len(table)].cols[c] = call.data[c]
        ELSE /\ Len(table) = Len(call.before)
             /\ \A i \in DOMAIN call.before :
                   IF call.before[i].product_name = p
                   THEN /\ table[i].product_name = p
                        /\ table[i].id = call.before[i].id
                        /\ \A c \in DataColumns :
                              table[i].cols[c] = IF c \in DOMAIN call.data
                                                 THEN call.data[c]
                                                 ELSE call.before[i].cols[c]
                   ELSE table[i] = call.before[i]

\* C14: after any calls of upsert_row and upsert_page the table holds at
\* most one row per product_name, and a call with a non-empty product name
\* has inserted the row when there was none and has otherwise overwritten
\* exactly the columns of its field set, all other columns and rows unchanged
C14_UpsertByKey ==
    /\ \A i, j \in DOMAIN table :
          table[i].product_name = table[j].product_name => i = j
    /\ call.n > 0 /\ call.product_name # "" => InsertedOrOverwritten

\* the URL scrape_table has dealt with last: fetched, and its rows upserted
LastStored == phase \in {"scrape", "returned"} /\ pc = "idle" /\ ui > 1

\* extraction found nothing in the page: no section text and no derived fact
FoundNothing(data) ==
    /\ \A k \in SectionKeys : ~Truthy(get(data, k, ""))
    /\ \A k \in {"last_review", "wcag", "compliance_level", "issue_text"} :
          get(data, k, None) = None

\* C15: a fetched URL is stored as "failed" when fetch_html returned no
\* HTML, as "no_content" when there was HTML in which extraction found
\* nothing, and as "success" with the extracted fields only when extraction
\* found something
C15_ThreeOutcomes ==
    LastStored =>
        \A i \in DOMAIN table :
            table[i].cols["url"] = fetchlog[ui - 1].url =>
                LET status == table[i].cols["status"]
                IN  /\ status \in {"failed", "no_content", "success"}
                    /\ status = "failed" <=> ~fetchlog[ui - 1].html
                    /\ status = "no_content"
                       <=> fetchlog[ui - 1].html /\ FoundNothing(results)
                    /\ status = "success"
                       => \A k \in DOMAIN results : table[i].cols[k] = results[k]

\* the rows of the table without a URL
RowsWithoutUrl == {i \in DOMAIN table : ~Truthy(table[i].cols["url"])}

\* C16: when scrape_table returns after the import, every row with a URL
\* has status failed, no_content or success and a fetched_at, every row
\* without a URL is as the import wrote it (status "no_url", no fetched_at,
\* nothing scraped), the skipped total counts the rows without a URL and the
\* scraped total is the number of distinct URLs
C16_NothingLeftPending ==
    phase = "returned" =>
        /\ \A i \in DOMAIN table \ RowsWithoutUrl :
              /\ table[i].cols["status"] \in {"failed", "no_content", "success"}
              /\ table[i].cols["fetched_at"] \in {Dates[d] : d \in DOMAIN Dates}
        /\ \A i \in RowsWithoutUrl :
              /\ table[i].cols["status"] = "no_url"
              /\ table[i].cols["url"] = None
              /\ \A c \in ScrapedColumns \ {"status"} : table[i].cols[c] = None
        /\ ret.skipped = Cardinality(RowsWithoutUrl)
        /\ ret.scraped = Cardinality(UrlsOf(table))

\* a table with a row whose URL could not be fetched and a row
\* without a URL, after the return
C16_Witness ==
    /\ phase = "returned"
    /\ ret = [scraped |-> 1, skipped |-> 1]
    /\ \E i, j \in DOMAIN table :
          /\ table[i].cols["status"] = "failed"
          /\ table[i].cols["fetched_at"] # None
          /\ table[j].cols["status"] = "no_url"
          /\ table[j].cols["fetched_at"] = None

=============================================================================
